---------------------------- MODULE Spec2Model ----------------------------
(***************************************************************************)
(* nimbus-fml front end (components/support/nimbus-fml/src/parser.rs).      *)
(*                                                                         *)
(* Spec starts in either of the crate's two entry points.                  *)
(*   InitTypeRef : one call of TypeRef::try_from on a type-expression       *)
(*                 string (a pure function, its inputs drawn in Init).      *)
(*   InitParser  : Parser::new on a deserialized ManifestFrontEnd, followed *)
(*                 by get_intermediate_representation, and run again on the *)
(*                 same document.                                           *)
(*                                                                         *)
(* A Rust String that the code inspects (type expressions, declared names)  *)
(* is a sequence of one-character strings, so that split, trim, starts_with *)
(* and eq are computed as the code computes them.  Descriptions, which the  *)
(* code only moves, are TLA+ strings.                                       *)
(***************************************************************************)
EXTENDS Integers, Sequences, FiniteSets, TLC

(***************************************************************************)
(* Bounds of the model.                                                    *)
(***************************************************************************)
\* nesting depth of the generated type expressions
MaxDepth == 2
\* fields per object in the generated manifests
MaxFields == 1
\* variables per feature in the generated manifests
MaxVars == 2

(***************************************************************************)
(* Option<T>                                                               *)
(***************************************************************************)
None == [some |-> FALSE]
Some(x) == [some |-> TRUE, val |-> x]

(***************************************************************************)
(* Character strings                                                       *)
(***************************************************************************)
LT == <<"<">>
GT == <<">">>
COMMA == <<",">>
SP == <<" ">>
LP == <<"(">>
RP == <<")">>

sString == <<"S","t","r","i","n","g">>
sInt == <<"I","n","t">>
sBoolean == <<"B","o","o","l","e","a","n">>
sBundleText == <<"B","u","n","d","l","e","T","e","x","t">>
sBundleImage == <<"B","u","n","d","l","e","I","m","a","g","e">>
sEnum == <<"E","n","u","m">>
sObject == <<"O","b","j","e","c","t">>
sList == <<"L","i","s","t">>
sOption == <<"O","p","t","i","o","n">>
sMap == <<"M","a","p">>

\* the delimiters of input.split(&['<', '>'][..])
Delims == {"<", ">"}
\* char::is_whitespace, restricted to the characters the inputs use
Whitespace == {" ", "\t", "\n"}

\* the primitive names of parse_typeref_string
Primitives == {sString, sInt, sBoolean}

\* str::split(pattern): the pieces between the delimiters, in order; a string
\* without delimiter (the empty string included) is a single piece
RECURSIVE Split(_, _)
Split(s, D) ==
    IF \A i \in 1..Len(s) : s[i] \notin D
    THEN << s >>
    ELSE LET i == CHOOSE k \in 1..Len(s) :
                     /\ s[k] \in D
                     /\ \A j \in 1..(k-1) : s[j] \notin D
         IN  << SubSeq(s, 1, i-1) >> \o Split(SubSeq(s, i+1, Len(s)), D)

\* str::trim_start
RECURSIVE TrimStart(_)
TrimStart(s) ==
    IF Len(s) > 0 /\ s[1] \in Whitespace THEN TrimStart(Tail(s)) ELSE s

\* str::trim_end
RECURSIVE TrimEnd(_)
TrimEnd(s) ==
    IF Len(s) > 0 /\ s[Len(s)] \in Whitespace
    THEN TrimEnd(SubSeq(s, 1, Len(s)-1))
    ELSE s

\* str::trim
Trim(s) == TrimStart(TrimEnd(s))

\* str::starts_with
StartsWith(s, p) == Len(s) >= Len(p) /\ SubSeq(s, 1, Len(p)) = p

(***************************************************************************)
(* TypeRef (intermediate_representation::TypeRef, as parser.rs builds it)   *)
(***************************************************************************)
TString == [tag |-> "String"]
TInt == [tag |-> "Int"]
TBoolean == [tag |-> "Boolean"]
TBundleText(n) == [tag |-> "BundleText", name |-> n]
TBundleImage(n) == [tag |-> "BundleImage", name |-> n]
TEnum(n) == [tag |-> "Enum", name |-> n]
TObject(n) == [tag |-> "Object", name |-> n]
TList(t) == [tag |-> "List", inner |-> t]
TOption(t) == [tag |-> "Option", inner |-> t]
TStringMap(v) == [tag |-> "StringMap", value |-> v]
TEnumMap(k, v) == [tag |-> "EnumMap", key |-> k, value |-> v]

(***************************************************************************)
(* Result<TypeRef, FMLError>, and the abort of the process by a panic       *)
(***************************************************************************)
Ok(t) == [kind |-> "Ok", val |-> t]
\* FMLError::TypeParsingError("<token> is not a recognized FML type")
ErrNotAType(token) ==
    [kind |-> "Err", variant |-> "TypeParsingError", what |-> "type", token |-> token]
\* FMLError::TypeParsingError("<token> is not a recognized FML Map key type")
ErrNotAMapKey(token) ==
    [kind |-> "Err", variant |-> "TypeParsingError", what |-> "map key", token |-> token]
\* Option::unwrap on None
Panic == [kind |-> "Panic"]

(***************************************************************************)
(* parse_typeref_string: (type_ref_name, Option<object_type_name>)          *)
(***************************************************************************)
\* parse_typeref_string without the trim() of the constructor name
parse_typeref_string_untrimmed(input) ==
    LET object_type_iter == Split(input, Delims)
        type_ref_name == object_type_iter[1]
    IN  IF type_ref_name \in Primitives
        THEN << type_ref_name, None >>
        ELSE IF Len(object_type_iter) >= 2
             THEN << type_ref_name, Some(object_type_iter[2]) >>
             ELSE << type_ref_name, None >>

parse_typeref_string(input) ==
    LET object_type_iter == Split(input, Delims)
        type_ref_name == Trim(object_type_iter[1])
    IN  IF type_ref_name \in Primitives
        THEN << type_ref_name, None >>
        ELSE IF Len(object_type_iter) >= 2
             THEN << type_ref_name, Some(object_type_iter[2]) >>
             ELSE << type_ref_name, None >>

(***************************************************************************)
(* impl TryFrom<String> for TypeRef                                        *)
(***************************************************************************)
\* Wrapped with the List arm copied to the Option arm unchanged
Wrapped_always_list(r, tag) ==
    IF r.kind = "Ok" THEN Ok([tag |-> "List", inner |-> r.val]) ELSE r

\* Ok(wrap(x?)): a panic or an error of the inner call goes up unchanged
Wrapped(r, tag) ==
    IF r.kind = "Ok" THEN Ok([tag |-> tag, inner |-> r.val]) ELSE r

RECURSIVE try_from(_)
\* the "Map" arm
try_from_map(type_ref, type_name) ==
    IF ~type_name.some
    THEN Panic
    ELSE LET map_type_info_iter == Split(type_name.val, {","})
             key_type == map_type_info_iter[1]
         IN  IF Len(map_type_info_iter) < 2
             THEN Panic
             ELSE LET value_type == Trim(map_type_info_iter[2])
                  IN  IF StartsWith(key_type, sEnum)
                      THEN LET k == try_from(key_type)
                           IN  IF k.kind # "Ok"
                               THEN k
                               ELSE LET v == try_from(value_type)
                                    IN  IF v.kind # "Ok"
                                        THEN v
                                        ELSE Ok(TEnumMap(k.val, v.val))
                      ELSE IF key_type = sString
                           THEN LET v == try_from(value_type)
                                IN  IF v.kind # "Ok"
                                    THEN v
                                    ELSE Ok(TStringMap(v.val))
                           ELSE ErrNotAMapKey(type_ref)

try_from(val) ==
    LET parsed == parse_typeref_string(val)
        type_ref == parsed[1]
        type_name == parsed[2]
    IN  CASE type_ref = sString -> Ok(TString)
          [] type_ref = sInt -> Ok(TInt)
          [] type_ref = sBoolean -> Ok(TBoolean)
          [] type_ref = sBundleText ->
                IF type_name.some THEN Ok(TBundleText(type_name.val)) ELSE Panic
          [] type_ref = sBundleImage ->
                IF type_name.some THEN Ok(TBundleImage(type_name.val)) ELSE Panic
          [] type_ref = sEnum ->
                IF type_name.some THEN Ok(TEnum(type_name.val)) ELSE Panic
          [] type_ref = sObject ->
                IF type_name.some THEN Ok(TObject(type_name.val)) ELSE Panic
          [] type_ref = sList ->
                IF type_name.some THEN Wrapped(try_from(type_name.val), "List") ELSE Panic
          [] type_ref = sOption ->
                IF type_name.some THEN Wrapped(try_from(type_name.val), "Option") ELSE Panic
          [] type_ref = sMap -> try_from_map(type_ref, type_name)
          [] OTHER -> ErrNotAType(type_ref)


(***************************************************************************)
(* serde_json::Value and the json! conversions                             *)
(***************************************************************************)
JNull == [json |-> "Null"]
JString(s) == [json |-> "String", s |-> s]
JObject(label, color) == [json |-> "Object", label |-> label, color |-> color]

\* json!(d) of a Value: the value itself
json_of_value(d) == d
\* json!(o) of an Option<Value>: Serialize writes None as null, Some(v) as v
json_of_option(o) == IF o.some THEN o.val ELSE JNull

(***************************************************************************)
(* The declared names and type expressions of the generated manifests       *)
(***************************************************************************)
nFoo == <<"F","o","o">>
nButton == <<"B","u","t","t","o","n">>
nPlayerProfile == <<"P","l","a","y","e","r","P","r","o","f","i","l","e">>
\* a declared name that reads as a type expression
nOptionInt == sOption \o LT \o sInt \o GT

(***************************************************************************)
(* ManifestFrontEnd: the front-end structures serde fills                   *)
(***************************************************************************)
EnumVariantBody(d) == [description |-> d]
EnumBody(d, vs) == [description |-> d, variants |-> vs]
ObjectFieldBody(d, t, df) ==
    [description |-> d, required |-> FALSE, variable_type |-> t, default |-> df]
ObjectBody(d, fs) == [description |-> d, failable |-> None, fields |-> fs]
FeatureVariableBody(d, t, df) ==
    [description |-> d, variable_type |-> t, default |-> df]
FeatureBody(d, vs, df) == [description |-> d, variables |-> vs, default |-> df]
ManifestFrontEnd(es, os, fs) ==
    [types |-> [enums |-> es, objects |-> os], features |-> fs, channels |-> << "release" >>]

\* the empty HashMap
EmptyMap == [x \in {} |-> x]
\* HashMap restricted to some of its keys
Restrict(f, S) == [x \in S |-> f[x]]

(***************************************************************************)
(* intermediate_representation: the definitions Parser::new builds          *)
(***************************************************************************)
VariantDef(n, d) == [name |-> n, doc |-> d]
EnumDef(n, d, vs) == [name |-> n, doc |-> d, variants |-> vs]
PropDef(n, d, t, df) == [name |-> n, doc |-> d, typ |-> t, default |-> df]
ObjectDef(n, d, ps) == [name |-> n, doc |-> d, props |-> ps]
FeatureDef(n, d, ps, df) == [name |-> n, doc |-> d, props |-> ps, default |-> df]
FeatureManifest(es, os, fs) ==
    [enum_defs |-> es, obj_defs |-> os, hints |-> EmptyMap, feature_defs |-> fs]

\* the orders in which a HashMap with key set S may be iterated
Orders(S) ==
    { o \in [1..Cardinality(S) -> S] : \A i, j \in DOMAIN o : i # j => o[i] # o[j] }

\* the names of the definitions collected so far in a Vec
Names(v) == { v[i].name : i \in DOMAIN v }


(***************************************************************************)
(* The generated documents                                                 *)
(***************************************************************************)
EnumDecls ==
    [ n \in {nPlayerProfile, nOptionInt} |->
        IF n = nPlayerProfile
        THEN EnumBody("This is an enum type",
                      [ v \in {"adult", "child"} |->
                          IF v = "adult"
                          THEN EnumVariantBody("This represents an adult player profile")
                          ELSE EnumVariantBody("This represents a child player profile") ])
        ELSE EnumBody("An enum named as a type expression",
                      [ v \in {"some"} |-> EnumVariantBody("The number is there") ]) ]

FieldDecls ==
    [ f \in {"label", "color", "profile"} |->
        CASE f = "label" -> ObjectFieldBody("This is the label for the button", sString, None)
          [] f = "color" -> ObjectFieldBody("This is the color of the button",
                                            sOption \o LT \o sString \o GT, Some(JString("red")))
          [] f = "profile" -> ObjectFieldBody("The profile the button is for", nPlayerProfile, None) ]

VarDecls ==
    [ v \in {"positive", "background-color", "button", "profile", "other", "maybe"} |->
        CASE v = "positive" ->
                FeatureVariableBody("This is a positive button", sObject \o LT \o nButton \o GT,
                                    Some(JObject("Ok then", "blue")))
          [] v = "background-color" ->
                FeatureVariableBody("This is the background color", sString, Some(JString("white")))
          [] v = "button" -> FeatureVariableBody("A button by its name", nButton, None)
          [] v = "profile" -> FeatureVariableBody("A profile by its name", nPlayerProfile, None)
          [] v = "other" -> FeatureVariableBody("A type nobody declares", nFoo, None)
          [] v = "maybe" -> FeatureVariableBody("An optional number", nOptionInt, None) ]

UpTo(S, n) == { T \in SUBSET S : Cardinality(T) <= n }

ObjectMaps ==
    { EmptyMap } \cup
    { [ o \in {n} |-> ObjectBody("This is a button object", Restrict(FieldDecls, F)) ] :
        n \in {nButton, nPlayerProfile}, F \in UpTo(DOMAIN FieldDecls, MaxFields) }

FeatureMaps ==
    { EmptyMap } \cup
    { [ f \in {"dialog-appearance"} |->
          FeatureBody("This is the appearance of the dialog", Restrict(VarDecls, V), d) ] :
        V \in UpTo(DOMAIN VarDecls, MaxVars),
        d \in { None, Some(JObject("Fine", "green")) } }

Manifests ==
    { ManifestFrontEnd(Restrict(EnumDecls, E), os, fs) :
        E \in SUBSET DOMAIN EnumDecls, os \in ObjectMaps, fs \in FeatureMaps }

(***************************************************************************)
(* State                                                                   *)
(***************************************************************************)
VARIABLES
    input,      \* TypeRef::try_from: the String converted
    result,     \* TypeRef::try_from: what the call came to
    manifest,   \* Parser::new: the ManifestFrontEnd read from the path
    pc,         \* Parser::new: the statement the call is at
    enums,      \* Parser::new: Vec<EnumDef> collected so far
    objects,    \* Parser::new: Vec<ObjectDef> collected so far
    features,   \* Parser::new: Vec<FeatureDef> collected so far
    types,      \* Parser::new: HashMap<String, TypeRef> of the user types
    lookups,    \* the keys types.get was called with
    failed,     \* the panic that ended the call, if one did
    ir,         \* what get_intermediate_representation returned
    prevIR      \* the same of the preceding run on this document

vars == << input, result, manifest, pc, enums, objects, features, types,
           lookups, failed, ir, prevIR >>

NotRun == [kind |-> "NotRun"]


(***************************************************************************)
(* The type expressions converted                                          *)
(***************************************************************************)
\* the TypeRefs that nest List, Option, Map<String, _> and Map<Enum<X>, _>
\* at most d deep over a primitive
RECURSIVE Nested(_)
Nested(d) ==
    IF d = 0
    THEN { TString, TInt, TBoolean }
    ELSE LET S == Nested(d - 1)
         IN  S \cup { TList(t) : t \in S } \cup { TOption(t) : t \in S }
               \cup { TStringMap(t) : t \in S }
               \cup { TEnumMap(TEnum(nFoo), t) : t \in S }

\* the type expression that is written for a TypeRef
RECURSIVE Render(_)
Render(t) ==
    CASE t.tag = "String" -> sString
      [] t.tag = "Int" -> sInt
      [] t.tag = "Boolean" -> sBoolean
      [] t.tag = "BundleText" -> sBundleText \o LT \o t.name \o GT
      [] t.tag = "BundleImage" -> sBundleImage \o LT \o t.name \o GT
      [] t.tag = "Enum" -> sEnum \o LT \o t.name \o GT
      [] t.tag = "Object" -> sObject \o LT \o t.name \o GT
      [] t.tag = "List" -> sList \o LT \o Render(t.inner) \o GT
      [] t.tag = "Option" -> sOption \o LT \o Render(t.inner) \o GT
      [] t.tag = "StringMap" -> sMap \o LT \o sString \o COMMA \o SP \o Render(t.value) \o GT
      [] t.tag = "EnumMap" ->
            sMap \o LT \o Render(t.key) \o COMMA \o SP \o Render(t.value) \o GT

\* "Map<k, v>"
MapExpr(k, v) == sMap \o LT \o k \o COMMA \o SP \o v \o GT

\* the constructors that take an inner argument
GenericNames == { sBundleText, sBundleImage, sEnum, sObject, sList, sOption, sMap }
BuiltinNames == Primitives \cup GenericNames

nTestName == <<"t","e","s","t","_","n","a","m","e">>
\* a name with a blank and a comma: " key,1"
nSpaced == <<" ","k","e","y",",","1">>
lString == <<"s","t","r","i","n","g">>
lInt == <<"i","n","t">>
lBool == <<"b","o","o","l">>
lList == <<"l","i","s","t">>
lSomething == <<"s","o","m","e","t","h","i","n","g">>

NestedExprs == { Render(t) : t \in Nested(MaxDepth) }
NamedExprs ==
    { c \o LT \o n \o GT : c \in { sBundleText, sBundleImage, sEnum, sObject },
                           n \in { nFoo, nTestName, nSpaced } }
\* "Map<String,P>" with no, one and two blanks before the value
StringMapExprs ==
    { sMap \o LT \o sString \o COMMA \o ws \o p \o GT :
        ws \in { << >>, SP, SP \o SP }, p \in Primitives }
\* a Map whose inner argument has a single part
OnePartMaps == { sMap \o LT \o k \o GT : k \in { sString, sInt, Render(TEnum(nFoo)) } }
\* key-type expressions that are neither String nor Enum<...>
BadKeys == { sInt, sBoolean, nFoo, Render(TList(TString)), Render(TOption(TInt)),
             Render(TObject(nFoo)) }
BadKeyMaps == { MapExpr(k, v) : k \in BadKeys, v \in { sString, sInt } }
UnknownExprs ==
    { lString, lInt, lBool, <<>>, nFoo, SP \o nFoo, nFoo \o SP \o LT \o sInt \o GT,
      lList \o LP \o lSomething \o RP, sEnum \o nFoo }
      \cup { c \o LP \o RP : c \in GenericNames }
      \cup { c \o LP \o lSomething \o RP : c \in { sOption, sMap } }
SpacedExprs ==
    { SP \o sString, sInt \o SP, SP \o Render(TList(TInt)),
      sList \o LT \o SP \o sBoolean \o GT,
      sMap \o LT \o sString \o COMMA \o sInt \o GT,
      sMap \o LT \o sString \o COMMA \o SP \o SP \o sBoolean \o GT,
      sString \o LT \o nFoo \o GT, sInt \o GT }

TypeExprs ==
    NestedExprs \cup NamedExprs \cup GenericNames \cup OnePartMaps \cup BadKeyMaps
      \cup UnknownExprs \cup SpacedExprs \cup StringMapExprs


(***************************************************************************)
(* Parser::new, statement by statement                                     *)
(***************************************************************************)
Min(S) == CHOOSE x \in S : \A y \in S : x <= y

\* LowerEnum with every variant documented by the enum's description
LowerEnum_enum_doc(name, body, order) ==
    EnumDef(name, body.description,
            [ i \in DOMAIN order |-> VariantDef(order[i], body.description) ])

\* the closure of the enums iterator: one EnumDef, its variants in the order
\* the variants HashMap is iterated
LowerEnum(name, body, order) ==
    EnumDef(name, body.description,
            [ i \in DOMAIN order |->
                VariantDef(order[i], body.variants[order[i]].description) ])

\* default of an object field: Some(d) => json!(d), None => Value::Null
FieldDefault(default) ==
    IF default.some THEN json_of_value(default.val) ELSE JNull

\* the closure of the objects iterator, once every field's type is resolved
LowerObject(name, body, order, typs) ==
    ObjectDef(name, body.description,
              [ i \in DOMAIN order |->
                  PropDef(order[i], body.fields[order[i]].description, typs[i].val,
                          FieldDefault(body.fields[order[i]].default)) ])

\* UserTypes without the second for_each: the object names are not inserted
UserTypes_enums_only(es, os) ==
    [ n \in Names(es) |-> TEnum(n) ]

\* UserTypes with the object names inserted first, the enum names after them
UserTypes_enums_last(es, os) ==
    [ n \in Names(es) \cup Names(os) |->
        IF n \in Names(es) THEN TEnum(n) ELSE TObject(n) ]

\* the user types: every enum name inserted, then every object name
UserTypes(es, os) ==
    [ n \in Names(es) \cup Names(os) |->
        IF n \in Names(os) THEN TObject(n) ELSE TEnum(n) ]

\* typ of a feature variable: TypeRef::try_from, and on Err the user types
ResolveVariable(tys, variable_type) ==
    LET r == try_from(variable_type)
    IN  CASE r.kind = "Ok" -> [kind |-> "Ok", val |-> r.val, looked |-> FALSE]
          [] r.kind = "Panic" ->
                [kind |-> "Panic", site |-> "unwrap", looked |-> FALSE]
          [] r.kind = "Err" ->
                IF variable_type \in DOMAIN tys
                THEN [kind |-> "Ok", val |-> tys[variable_type], looked |-> TRUE]
                ELSE [kind |-> "Panic", site |-> "not a valid FML type or user defined type",
                      looked |-> TRUE]

\* FeatureDefault without the is_some() test
FeatureDefault_always_some(default) == Some(json_of_option(default))

\* default of a feature: Some(json!(default)) if default.is_some(), else None
FeatureDefault(default) ==
    IF default.some THEN Some(json_of_option(default)) ELSE None

\* the closure of the features iterator, once every variable's type is resolved
LowerFeature(name, body, order, typs) ==
    FeatureDef(name, body.description,
               [ i \in DOMAIN order |->
                   PropDef(order[i], body.variables[order[i]].description, typs[i].val,
                           json_of_option(body.variables[order[i]].default)) ],
               FeatureDefault(body.default))

\* the state a call of Parser::new starts in
Started(m) ==
    /\ manifest' = m
    /\ pc' = "enums"
    /\ enums' = << >>
    /\ objects' = << >>
    /\ features' = << >>
    /\ types' = EmptyMap
    /\ lookups' = {}
    /\ failed' = None
    /\ ir' = None

InitParser ==
    /\ input = << >>
    /\ result = NotRun
    /\ manifest \in Manifests
    /\ pc = "enums"
    /\ enums = << >>
    /\ objects = << >>
    /\ features = << >>
    /\ types = EmptyMap
    /\ lookups = {}
    /\ failed = None
    /\ ir = None
    /\ prevIR = None

\* manifest.types.enums.clone().into_iter().map(..): the next enum
NextEnum ==
    /\ pc = "enums"
    /\ \E n \in DOMAIN manifest.types.enums \ Names(enums) :
         \E order \in Orders(DOMAIN manifest.types.enums[n].variants) :
            enums' = Append(enums, LowerEnum(n, manifest.types.enums[n], order))
    /\ UNCHANGED << input, result, manifest, pc, objects, features, types,
                    lookups, failed, ir, prevIR >>

\* .collect() of the enums
CollectEnums ==
    /\ pc = "enums"
    /\ DOMAIN manifest.types.enums \ Names(enums) = {}
    /\ pc' = "objects"
    /\ UNCHANGED << input, result, manifest, enums, objects, features, types,
                    lookups, failed, ir, prevIR >>

\* manifest.types.objects.into_iter().map(..): the next object; unwrap() of a
\* field's type ends the process unless try_from returned Ok
NextObject ==
    /\ pc = "objects"
    /\ \E n \in DOMAIN manifest.types.objects \ Names(objects) :
         LET body == manifest.types.objects[n]
         IN  \E order \in Orders(DOMAIN body.fields) :
               LET typs == [ i \in DOMAIN order |->
                               try_from(body.fields[order[i]].variable_type) ]
                   bad == { i \in DOMAIN order : typs[i].kind # "Ok" }
               IN  IF bad = {}
                   THEN /\ objects' = Append(objects, LowerObject(n, body, order, typs))
                        /\ UNCHANGED << pc, failed >>
                   ELSE /\ pc' = "panicked"
                        /\ failed' = Some([ phase |-> "objects", site |-> "unwrap",
                                            variable_type |->
                                                body.fields[order[Min(bad)]].variable_type ])
                        /\ UNCHANGED objects
    /\ UNCHANGED << input, result, manifest, enums, features, types,
                    lookups, ir, prevIR >>

\* .collect() of the objects
CollectObjects ==
    /\ pc = "objects"
    /\ DOMAIN manifest.types.objects \ Names(objects) = {}
    /\ pc' = "types"
    /\ UNCHANGED << input, result, manifest, enums, objects, features, types,
                    lookups, failed, ir, prevIR >>

\* let mut types = HashMap::new(); the two for_each loops
BuildTypes ==
    /\ pc = "types"
    /\ types' = UserTypes(enums, objects)
    /\ pc' = "features"
    /\ UNCHANGED << input, result, manifest, enums, objects, features,
                    lookups, failed, ir, prevIR >>

\* manifest.features.into_iter().map(..): the next feature
NextFeature ==
    /\ pc = "features"
    /\ \E f \in DOMAIN manifest.features \ Names(features) :
         LET body == manifest.features[f]
         IN  \E order \in Orders(DOMAIN body.variables) :
               LET typs == [ i \in DOMAIN order |->
                               ResolveVariable(types, body.variables[order[i]].variable_type) ]
                   bad == { i \in DOMAIN order : typs[i].kind = "Panic" }
                   last == IF bad = {} THEN Len(order) ELSE Min(bad)
               IN  /\ lookups' = lookups \cup
                          { body.variables[order[i]].variable_type :
                              i \in { j \in 1..last : typs[j].looked } }
                   /\ IF bad = {}
                      THEN /\ features' = Append(features, LowerFeature(f, body, order, typs))
                           /\ UNCHANGED << pc, failed >>
                      ELSE /\ pc' = "panicked"
                           /\ failed' = Some([ phase |-> "features", site |-> typs[last].site,
                                               variable_type |->
                                                   body.variables[order[last]].variable_type ])
                           /\ UNCHANGED features
    /\ UNCHANGED << input, result, manifest, enums, objects, types, ir, prevIR >>

\* .collect() of the features and Ok(Parser { .. })
CollectFeatures ==
    /\ pc = "features"
    /\ DOMAIN manifest.features \ Names(features) = {}
    /\ pc' = "done"
    /\ UNCHANGED << input, result, manifest, enums, objects, features, types,
                    lookups, failed, ir, prevIR >>

\* Parser::get_intermediate_representation
get_intermediate_representation ==
    /\ pc = "done"
    /\ ~ir.some
    /\ ir' = Some(FeatureManifest(enums, objects, features))
    /\ UNCHANGED << input, result, manifest, pc, enums, objects, features, types,
                    lookups, failed, prevIR >>

\* Parser::new on the same path a second time
ParseAgain ==
    /\ pc = "done"
    /\ ir.some
    /\ ~prevIR.some
    /\ prevIR' = ir
    /\ Started(manifest)
    /\ UNCHANGED << input, result >>

(***************************************************************************)
(* TypeRef::try_from on one String                                         *)
(***************************************************************************)
InitTypeRef ==
    /\ input \in TypeExprs
    /\ result = NotRun
    /\ manifest = ManifestFrontEnd(EmptyMap, EmptyMap, EmptyMap)
    /\ pc = "idle"
    /\ enums = << >>
    /\ objects = << >>
    /\ features = << >>
    /\ types = EmptyMap
    /\ lookups = {}
    /\ failed = None
    /\ ir = None
    /\ prevIR = None

Convert ==
    /\ pc = "idle"
    /\ result = NotRun
    /\ result' = try_from(input)
    /\ UNCHANGED << input, manifest, pc, enums, objects, features, types,
                    lookups, failed, ir, prevIR >>

(***************************************************************************)
(* Specification                                                           *)
(***************************************************************************)
Init == InitParser \/ InitTypeRef

Next ==
    \/ NextEnum
    \/ CollectEnums
    \/ NextObject
    \/ CollectObjects
    \/ BuildTypes
    \/ NextFeature
    \/ CollectFeatures
    \/ get_intermediate_representation
    \/ ParseAgain
    \/ Convert

Spec == Init /\ [][Next]_vars


(***************************************************************************)
(* Vocabulary of the properties                                            *)
(***************************************************************************)
\* TypeRef::try_from has returned or panicked
Converted == pc = "idle" /\ result.kind # "NotRun"

\* the text before the first '<' or '>' of a type expression
BeforeDelim(s) ==
    LET at == { i \in 1..Len(s) : s[i] \in Delims }
    IN  IF at = {} THEN s ELSE SubSeq(s, 1, Min(at) - 1)

\* the constructor name of a type expression
Constructor(s) == Trim(BeforeDelim(s))

DeclaredEnums == DOMAIN manifest.types.enums
DeclaredObjects == DOMAIN manifest.types.objects
Declared == DeclaredEnums \cup DeclaredObjects

\* the type string the document gives the variable a PropDef was made from
VariableType(f, p) == manifest.features[f.name].variables[p.name].variable_type

(***************************************************************************)
(* C1: every type expression that nests List<..>, Option<..>,               *)
(* Map<String, ..> and Map<Enum<X>, ..> to a depth of one or more over a    *)
(* primitive converts to the TypeRef with the same nesting.                 *)
(***************************************************************************)
C1_NestedExpressionsResolve ==
    Converted =>
        \A t \in Nested(MaxDepth) \ Nested(0) :
            input = Render(t) => result = Ok(t)

(***************************************************************************)
(* C2: "Map<Enum<X>, V>" with V a primitive converts to                     *)
(* EnumMap(Enum(X), V), and the key of every EnumMap returned is an Enum.   *)
(***************************************************************************)
C2_EnumKeyedMapResolves ==
    Converted =>
        /\ \A v \in Nested(0) :
              input = MapExpr(Render(TEnum(nFoo)), Render(v))
                  => result = Ok(TEnumMap(TEnum(nFoo), v))
        /\ (result.kind = "Ok" /\ result.val.tag = "EnumMap")
              => result.val.key.tag = "Enum"

(***************************************************************************)
(* C3: a generic constructor written without inner argument, and a Map      *)
(* whose inner argument has one part only, make try_from return an error;   *)
(* the process is not aborted.                                              *)
(***************************************************************************)
C3_MissingArgumentIsAnError ==
    (Converted /\ input \in GenericNames \cup OnePartMaps) => result.kind = "Err"

(***************************************************************************)
(* C4: Parser::new does not end the process at a feature variable whose     *)
(* type string is neither a built-in constructor nor a declared name; it    *)
(* returns an error.                                                        *)
(***************************************************************************)
C4_UnknownUserTypeIsAnError ==
    ~ ( /\ pc = "panicked"
        /\ failed.some
        /\ failed.val.phase = "features"
        /\ Constructor(failed.val.variable_type) \notin BuiltinNames
        /\ failed.val.variable_type \notin Declared )


(***************************************************************************)
(* C5 as claimed: a feature variable whose type string is the name of a     *)
(* declared enum or object, and no built-in constructor name, is resolved   *)
(* (no panic) to Enum(name) when the name is a declared enum and to         *)
(* Object(name) when it is a declared object.                               *)
(***************************************************************************)
C5_DeclaredNameResolves_AsClaimed ==
    /\ \A i \in DOMAIN features : \A j \in DOMAIN features[i].props :
          LET vt == VariableType(features[i], features[i].props[j])
              typ == features[i].props[j].typ
          IN  (vt \in Declared /\ vt \notin BuiltinNames) =>
                  /\ vt \in DeclaredEnums => typ = TEnum(vt)
                  /\ vt \in DeclaredObjects => typ = TObject(vt)
    /\ (failed.some /\ failed.val.phase = "features") =>
          ~ (failed.val.variable_type \in Declared
               /\ failed.val.variable_type \notin BuiltinNames)

(***************************************************************************)
(* C5 amended: a feature variable whose type string is the name of a        *)
(* declared enum or object, and whose constructor name (the trimmed text    *)
(* before the first '<' or '>') is no built-in constructor name, is         *)
(* resolved (no panic) to Object(name) when the name is a declared object,  *)
(* and to Enum(name) when it is a declared enum and no declared object.     *)
(***************************************************************************)
C5_DeclaredNameResolves ==
    /\ \A i \in DOMAIN features : \A j \in DOMAIN features[i].props :
          LET vt == VariableType(features[i], features[i].props[j])
              typ == features[i].props[j].typ
          IN  (vt \in Declared /\ Constructor(vt) \notin BuiltinNames) =>
                  typ = IF vt \in DeclaredObjects THEN TObject(vt) ELSE TEnum(vt)
    /\ (failed.some /\ failed.val.phase = "features") =>
          ~ (failed.val.variable_type \in Declared
               /\ Constructor(failed.val.variable_type) \notin BuiltinNames)

\* a variable typed by the bare name of a declared enum was looked up in the
\* user types and lowered
C5_Witness ==
    \E i \in DOMAIN features : \E j \in DOMAIN features[i].props :
        /\ VariableType(features[i], features[i].props[j]) = nPlayerProfile
        /\ nPlayerProfile \in DeclaredEnums \ DeclaredObjects
        /\ nPlayerProfile \in lookups
        /\ features[i].props[j].typ = TEnum(nPlayerProfile)

(***************************************************************************)
(* C6: lowering the same document twice gives the same FeatureManifest,     *)
(* the order of enum_defs, obj_defs, feature_defs, variants and props       *)
(* included.                                                                *)
(***************************************************************************)
C6_LoweringIsDeterministic ==
    (ir.some /\ prevIR.some) => ir.val = prevIR.val

(***************************************************************************)
(* C7: a Map whose key-type expression is neither String nor Enum<..>       *)
(* makes try_from return the unsupported-map-key error; the process is not  *)
(* aborted and no map type is returned.                                     *)
(***************************************************************************)
C7_UnsupportedMapKeyIsAnError ==
    (Converted /\ input \in BadKeyMaps) =>
        (result.kind = "Err" /\ result.what = "map key")

(***************************************************************************)
(* C8: a type expression whose constructor name is not, case-sensitively,   *)
(* one of the ten built-in names makes try_from return the TypeParsingError *)
(* that names that constructor; no TypeRef is returned.                     *)
(***************************************************************************)
C8_UnknownConstructorIsATypeParsingError ==
    (Converted /\ Constructor(input) \notin BuiltinNames) =>
        result = ErrNotAType(Constructor(input))

\* "list(something)" and " Foo" were converted and refused
C8_Witness ==
    /\ Converted
    /\ input \in { lList \o LP \o lSomething \o RP, SP \o nFoo, lString }
    /\ result.kind = "Err"


(***************************************************************************)
(* C9: the FeatureManifest of a document that lowers holds exactly one      *)
(* EnumDef per declared enum, one ObjectDef per declared object and one     *)
(* FeatureDef per declared feature, each with the declared name and         *)
(* description, one VariantDef per declared variant and one PropDef per     *)
(* declared field or variable, with its name and description; hints is      *)
(* empty.                                                                   *)
(***************************************************************************)
\* v holds one definition per key of the HashMap m, and nothing else
OnePerKey(v, m) == Len(v) = Cardinality(DOMAIN m) /\ Names(v) = DOMAIN m

C9_OneDefinitionPerDeclaration ==
    ir.some =>
        LET m == ir.val
        IN  /\ OnePerKey(m.enum_defs, manifest.types.enums)
            /\ \A i \in DOMAIN m.enum_defs :
                  LET d == m.enum_defs[i]
                      body == manifest.types.enums[d.name]
                  IN  /\ d.doc = body.description
                      /\ OnePerKey(d.variants, body.variants)
                      /\ \A k \in DOMAIN d.variants :
                            d.variants[k].doc = body.variants[d.variants[k].name].description
            /\ OnePerKey(m.obj_defs, manifest.types.objects)
            /\ \A i \in DOMAIN m.obj_defs :
                  LET d == m.obj_defs[i]
                      body == manifest.types.objects[d.name]
                  IN  /\ d.doc = body.description
                      /\ OnePerKey(d.props, body.fields)
                      /\ \A k \in DOMAIN d.props :
                            d.props[k].doc = body.fields[d.props[k].name].description
            /\ OnePerKey(m.feature_defs, manifest.features)
            /\ \A i \in DOMAIN m.feature_defs :
                  LET d == m.feature_defs[i]
                      body == manifest.features[d.name]
                  IN  /\ d.doc = body.description
                      /\ OnePerKey(d.props, body.variables)
                      /\ \A k \in DOMAIN d.props :
                            d.props[k].doc = body.variables[d.props[k].name].description
            /\ DOMAIN m.hints = {}

\* a manifest of two enums, an object with a field and a feature with two
\* variables was lowered
C9_Witness ==
    /\ ir.some
    /\ Len(ir.val.enum_defs) = 2
    /\ \E i \in DOMAIN ir.val.enum_defs : Len(ir.val.enum_defs[i].variants) = 2
    /\ Len(ir.val.obj_defs) = 1
    /\ Len(ir.val.obj_defs[1].props) = 1
    /\ Len(ir.val.feature_defs) = 1
    /\ Len(ir.val.feature_defs[1].props) = 2

(***************************************************************************)
(* C10: in the FeatureManifest of a document that lowers, the default of    *)
(* every PropDef is the raw default of its field or variable, and null      *)
(* exactly when the document gives none; the default of a FeatureDef is the *)
(* feature's raw default when the document gives one and absent (None)      *)
(* when it gives none.                                                      *)
(***************************************************************************)
\* the PropDef default d is what the raw Option<Value> o asks for
PreservesDefault(d, o) ==
    /\ o.some => d = o.val
    /\ d = JNull <=> ~o.some

C10_DefaultsPreserved ==
    ir.some =>
        LET m == ir.val
        IN  /\ \A i \in DOMAIN m.obj_defs : \A k \in DOMAIN m.obj_defs[i].props :
                  LET p == m.obj_defs[i].props[k]
                  IN  PreservesDefault(p.default,
                          manifest.types.objects[m.obj_defs[i].name].fields[p.name].default)
            /\ \A i \in DOMAIN m.feature_defs :
                  LET d == m.feature_defs[i]
                      body == manifest.features[d.name]
                  IN  /\ \A k \in DOMAIN d.props :
                            PreservesDefault(d.props[k].default,
                                             body.variables[d.props[k].name].default)
                      /\ body.default.some =>
                            (d.default.some /\ d.default.val = body.default.val)
                      /\ ~body.default.some => ~d.default.some

\* lowered: a field with a default, a variable with one and one without, in a
\* feature without default
C10_Witness ==
    /\ ir.some
    /\ \E i \in DOMAIN ir.val.obj_defs : \E k \in DOMAIN ir.val.obj_defs[i].props :
          ir.val.obj_defs[i].props[k].default = JString("red")
    /\ \E i \in DOMAIN ir.val.feature_defs :
          /\ ~ir.val.feature_defs[i].default.some
          /\ \E j, k \in DOMAIN ir.val.feature_defs[i].props :
                /\ ir.val.feature_defs[i].props[j].default = JString("white")
                /\ ir.val.feature_defs[i].props[k].default = JNull


(***************************************************************************)
(* C11: in every run of Parser::new the enums are lowered, then the         *)
(* objects, then the user types are built, then the features are lowered.   *)
(* The user types are looked up only while feature variables are resolved;  *)
(* at every lookup they map every declared enum and object name; they do    *)
(* not change once the features are being lowered; and no object field gets *)
(* its type from them: a field whose type string is the bare name of a      *)
(* declared enum or object is not resolved.                                 *)
(***************************************************************************)
\* the statements that may follow one another in a run
C11_Order ==
    { << "enums", "objects" >>, << "objects", "types" >>, << "objects", "panicked" >>,
      << "types", "features" >>, << "features", "done" >>, << "features", "panicked" >>,
      << "done", "enums" >> }

\* what has been done when the call is at a statement
C11_Phases ==
    /\ pc \in { "enums", "objects" } => (types = EmptyMap /\ features = << >>)
    /\ pc = "enums" => objects = << >>
    /\ pc \in { "objects", "types", "features", "done" } => Names(enums) = DeclaredEnums
    /\ pc \in { "types", "features", "done" } => Names(objects) = DeclaredObjects
    /\ pc = "types" => (types = EmptyMap /\ features = << >>)
    /\ pc \in { "features", "done" } => DOMAIN types = Declared
    /\ pc \in { "enums", "objects", "types" } => lookups = {}
    /\ (failed.some /\ failed.val.phase = "objects") => lookups = {}
    /\ \A i \in DOMAIN objects : \A k \in DOMAIN objects[i].props :
          LET vt == manifest.types.objects[objects[i].name].fields[objects[i].props[k].name]
                        .variable_type
          IN  /\ Constructor(vt) \in BuiltinNames
              /\ ~ (vt \in Declared /\ vt \notin BuiltinNames)

\* what a step of the call may do to the user types and to the lookups
C11_Step ==
    /\ pc' # pc => << pc, pc' >> \in C11_Order
    /\ lookups' \ lookups # {} =>
          /\ pc = "features"
          /\ Declared \subseteq DOMAIN types
          /\ \A n \in DeclaredEnums \ DeclaredObjects : types[n] = TEnum(n)
          /\ \A n \in DeclaredObjects : types[n] = TObject(n)
    /\ pc = "features" => types' = types
    /\ types' # types => (pc = "types" \/ (pc = "done" /\ pc' = "enums"))

C11_PhasesInOrder == []C11_Phases /\ [][C11_Step]_vars

\* a run that lowered an enum and an object with a field, and looked a
\* variable's type up in the user types
C11_Witness ==
    /\ pc = "features"
    /\ Len(enums) >= 1
    /\ Len(objects) = 1
    /\ Len(objects[1].props) = 1
    /\ lookups # {}
    /\ Len(features) = 1


(***************************************************************************)
(* C12: for every primitive P and every non-empty name n without '<' and    *)
(* '>', try_from gives String, Int, Boolean for the bare primitive name,    *)
(* List(P) for "List<P>", Option(P) for "Option<P>", StringMap(P) for       *)
(* "Map<String, P>" whatever blanks lead the value part, and BundleText(n), *)
(* BundleImage(n), Enum(n), Object(n) for "BundleText<n>", "BundleImage<n>",*)
(* "Enum<n>", "Object<n>"; the enums and objects a manifest declares do not *)
(* change that.                                                             *)
(***************************************************************************)
\* the names tried
C12_Names == { nFoo, nTestName, nSpaced, nButton, nPlayerProfile }

\* the pairs of a type expression and the TypeRef it stands for
C12_Cases ==
    { << Render(p), p >> : p \in Nested(0) }
      \cup { << sList \o LT \o Render(p) \o GT, TList(p) >> : p \in Nested(0) }
      \cup { << sOption \o LT \o Render(p) \o GT, TOption(p) >> : p \in Nested(0) }
      \cup { << sMap \o LT \o sString \o COMMA \o ws \o Render(p) \o GT, TStringMap(p) >> :
               ws \in { << >>, SP, SP \o SP }, p \in Nested(0) }
      \cup { << sBundleText \o LT \o n \o GT, TBundleText(n) >> : n \in C12_Names }
      \cup { << sBundleImage \o LT \o n \o GT, TBundleImage(n) >> : n \in C12_Names }
      \cup { << sEnum \o LT \o n \o GT, TEnum(n) >> : n \in C12_Names }
      \cup { << sObject \o LT \o n \o GT, TObject(n) >> : n \in C12_Names }

=============================================================================
